---- MODULE Spec2Model ----
(***************************************************************************)
(* Model of the example backends for OpenBB Workspace:                     *)
(*   - the widget registry WIDGETS filled by the register_widget decorator *)
(*     and served by get_widgets (getting-started/reference-backend and    *)
(*     widget-types/omni_widget);                                          *)
(*   - the form endpoints form_submit / all_forms over the in-memory list  *)
(*     ALL_FORMS (reference-backend, parameters-types/form_parameter and   *)
(*     advanced_examples/form_parameter, whose handlers are identical).    *)
(*   - the whitepaper endpoints of widget-types/multi_file_viewer;         *)
(*   - the UDF symbol search of the reference backend and of the Kraken    *)
(*     charting example;                                                   *)
(*   - the reference backend's widgets with dependent and grouped          *)
(*     parameters and their option endpoints.                              *)
(*                                                                         *)
(* Python values are tagged records: a str is [t |-> "str", s |-> ...], a  *)
(* list is [t |-> "list", l |-> <<elements>>], a bool [t |-> "bool",       *)
(* b |-> ...], an int [t |-> "int", n |-> ...] and None is [t |-> "none"]. *)
(* A dict is a function whose DOMAIN is its key set; a dict nested in a    *)
(* widget configuration is [t |-> "dict", d |-> that function].            *)
(***************************************************************************)
EXTENDS Integers, Sequences, FiniteSets, Bags, TLC

VARIABLES
    WIDGETS,    \* reference-backend/main.py:17   the registry dict
    applied,    \* history: the configs register_widget was applied to, in order
    wrappers,   \* the wrappers the decorator has returned (the routes' handlers)
    ALL_FORMS,  \* reference-backend/main.py:2468 the list of stored form records
    request,    \* the call being answered: [op |-> ..., ...]
    response,   \* what that call returned
    pending     \* the bag of calls suspended at an await, not yet answered

vars == <<WIDGETS, applied, wrappers, ALL_FORMS, request, response, pending>>

----------------------------------------------------------------------------
(* Python values *)

PyNone == [t |-> "none"]
PyStr(s) == [t |-> "str", s |-> s]
PyBool(b) == [t |-> "bool", b |-> b]
PyInt(n) == [t |-> "int", n |-> n]
PyList(l) == [t |-> "list", l |-> l]

\* Python truth value testing, as used by `not x` and `if x:`.
truthy(v) ==
    CASE v.t = "none" -> FALSE
      [] v.t = "str"  -> v.s # ""
      [] v.t = "bool" -> v.b
      [] v.t = "int"  -> v.n # 0
      [] v.t = "list" -> v.l # <<>>
      [] v.t = "dict" -> DOMAIN v.d # {}

\* isinstance(v, list)
is_list(v) == v.t = "list"

\* dict.get(key): the value, or None when the key is absent.
dict_get(d, key) == IF key \in DOMAIN d THEN d[key] ELSE PyNone

\* The dict left by dict.pop(key, None): the key removed when present.
dict_pop(d, key) == [k \in DOMAIN d \ {key} |-> d[k]]

\* dict.update(other): other's items written over d's.
dict_update(d, other) ==
    [k \in DOMAIN d \cup DOMAIN other |-> IF k \in DOMAIN other THEN other[k] ELSE d[k]]

\* ",".join(l) raises TypeError unless every element is a str.
join_raises(l) == \E i \in 1..Len(l) : l[i].t # "str"

RECURSIVE str_join(_)
str_join(l) ==
    IF l = <<>> THEN ""
    ELSE IF Len(l) = 1 THEN l[1].s
    ELSE l[1].s \o "," \o str_join(Tail(l))

----------------------------------------------------------------------------
(* The widget registry: register_widget and get_widgets *)

\* The wrappers the decorator defines around func; each calls func and
\* returns what it returns.
async_wrapper(func) == [wrapper |-> "async_wrapper", func |-> func]
sync_wrapper(func) == [wrapper |-> "sync_wrapper", func |-> func]

\* What decorator(func) returns: asyncio.iscoroutinefunction(func) decides.
decorator_result(func) ==
    IF func.is_coroutine THEN async_wrapper(func) ELSE sync_wrapper(func)

\* Mutant: the id is set to the endpoint even when the configuration has one.
config_with_id_overwrite(widget_config, endpoint) ==
    dict_update(widget_config, [id |-> endpoint])

\* The config as register_widget leaves it: "id" added when not present.
config_with_id(widget_config, endpoint) ==
    IF "id" \notin DOMAIN widget_config
    THEN dict_update(widget_config, [id |-> endpoint])
    ELSE widget_config

\* WIDGETS[key] = value
dict_set(d, key, value) ==
    [k \in DOMAIN d \cup {key} |-> IF k = key THEN value ELSE d[k]]

\* Mutant: the endpoint is not tested before the configuration is stored.
widgets_after_register_unchecked(widgets, widget_config) ==
    LET endpoint == dict_get(widget_config, "endpoint")
    IN  dict_set(widgets, endpoint, config_with_id(widget_config, endpoint))

\* Mutant: an endpoint already registered keeps its first configuration.
widgets_after_register_keep_first(widgets, widget_config) ==
    LET endpoint == dict_get(widget_config, "endpoint")
    IN  IF truthy(endpoint) /\ endpoint \notin DOMAIN widgets
        THEN dict_set(widgets, endpoint, config_with_id(widget_config, endpoint))
        ELSE widgets

\* WIDGETS after register_widget(widget_config) has decorated a function.
widgets_after_register(widgets, widget_config) ==
    LET endpoint == dict_get(widget_config, "endpoint")
    IN  IF truthy(endpoint)
        THEN dict_set(widgets, endpoint, config_with_id(widget_config, endpoint))
        ELSE widgets

\* The dict passed to register_widget as the call leaves it: the "id" is
\* written into it only on the path that stores it.
config_after_register(widget_config) ==
    LET endpoint == dict_get(widget_config, "endpoint")
    IN  IF truthy(endpoint) THEN config_with_id(widget_config, endpoint) ELSE widget_config

\* @register_widget(widget_config) applied to func.
register_widget(widget_config, func) ==
    /\ WIDGETS' = widgets_after_register(WIDGETS, widget_config)
    /\ applied' = Append(applied, widget_config)
    /\ wrappers' = wrappers \cup {decorator_result(func)}
    /\ request' = [op |-> "register_widget", widget_config |-> widget_config, func |-> func]
    /\ response' = [returned |-> decorator_result(func),
                    widget_config |-> config_after_register(widget_config)]
    /\ UNCHANGED <<ALL_FORMS, pending>>

\* GET /widgets.json
get_widgets ==
    /\ request' = [op |-> "get_widgets"]
    /\ response' = [status |-> 200, content |-> WIDGETS]
    /\ UNCHANGED <<WIDGETS, applied, wrappers, ALL_FORMS, pending>>

\* The stocks /advanced_dropdown_options lists.
ADVANCED_OPTIONS ==
    << [label |-> "Apple Inc.", value |-> "AAPL",
        extraInfo |-> [description |-> "Technology Company", rightOfDescription |-> "NASDAQ"]],
       [label |-> "Microsoft Corporation", value |-> "MSFT",
        extraInfo |-> [description |-> "Software Company", rightOfDescription |-> "NASDAQ"]],
       [label |-> "Google", value |-> "GOOGL",
        extraInfo |-> [description |-> "Search Engine", rightOfDescription |-> "NASDAQ"]] >>

\* GET /advanced_dropdown_options: an endpoint without the decorator.
advanced_dropdown_options ==
    /\ request' = [op |-> "advanced_dropdown_options"]
    /\ response' = [status |-> 200, content |-> ADVANCED_OPTIONS]
    /\ UNCHANGED <<WIDGETS, applied, wrappers, ALL_FORMS, pending>>

\* The mock database of get_document_options.
SAMPLE_DOCUMENTS ==
    << [name |-> "Q1 Report", category |-> "reports"],
       [name |-> "Q2 Report", category |-> "reports"],
       [name |-> "Investor Presentation", category |-> "presentations"],
       [name |-> "Product Roadmap", category |-> "presentations"] >>

\* [x for x in seq if keep(x)]
RECURSIVE filter_category(_, _)
filter_category(docs, category) ==
    IF docs = << >> THEN << >>
    ELSE IF Head(docs).category = category
         THEN <<Head(docs)>> \o filter_category(Tail(docs), category)
         ELSE filter_category(Tail(docs), category)

\* Mutant: the category is ignored and every document is listed.
document_options_unfiltered(category) ==
    [i \in 1..Len(SAMPLE_DOCUMENTS) |->
        [label |-> SAMPLE_DOCUMENTS[i].name, value |-> SAMPLE_DOCUMENTS[i].name]]

\* The list get_document_options returns for a category.
document_options(category) ==
    LET filtered_docs == IF category = "all"
                         THEN SAMPLE_DOCUMENTS
                         ELSE filter_category(SAMPLE_DOCUMENTS, category)
    IN  [i \in 1..Len(filtered_docs) |->
            [label |-> filtered_docs[i].name, value |-> filtered_docs[i].name]]

\* GET /document_options: an endpoint without the decorator.
get_document_options(category) ==
    /\ request' = [op |-> "get_document_options", category |-> category]
    /\ response' = [status |-> 200, content |-> document_options(category)]
    /\ UNCHANGED <<WIDGETS, applied, wrappers, ALL_FORMS, pending>>

----------------------------------------------------------------------------
(* The form endpoints: form_submit and all_forms *)

ErrNames == "Client first name and last name are required"
ErrInvestment == "Investment types and risk profile are required"

\* JSONResponse(status_code=400, content={"error": msg})
BadRequest(msg) == [status |-> 400, content |-> [error |-> msg]]
\* JSONResponse(content={"success": True})
Success == [status |-> 200, content |-> [success |-> TRUE]]
\* An exception escaping a handler: the server answers 500.
ServerError == [status |-> 500]

\* {k: ",".join(v) if isinstance(v, list) else v for k, v in params.items()}
joined_record(params) ==
    [k \in DOMAIN params |->
        IF is_list(params[k]) THEN PyStr(str_join(params[k].l)) ELSE params[k]]

\* The comprehension raises when some list value has a non-str element.
joined_record_raises(params) ==
    \E k \in DOMAIN params : is_list(params[k]) /\ join_raises(params[k].l)

\* Mutant: records are matched on the first name alone.
record_matches_first_name(record, params) ==
    record["client_first_name"] = dict_get(params, "client_first_name")

\* The condition of the update loop: both names equal the submitted ones.
record_matches(record, params) ==
    /\ record["client_first_name"] = dict_get(params, "client_first_name")
    /\ record["client_last_name"] = dict_get(params, "client_last_name")

\* for record in ALL_FORMS: if <matches>: record.update(params)
update_matching(forms, params) ==
    [i \in 1..Len(forms) |->
        IF record_matches(forms[i], params)
        THEN dict_update(forms[i], params)
        ELSE forms[i]]

\* Mutant: the new record is inserted in front instead of appended.
forms_after_submit_prepend(forms, params) ==
    LET add_record == dict_get(params, "add_record")
        p1 == dict_pop(params, "add_record")
        forms1 == IF truthy(add_record)
                  THEN <<joined_record(p1)>> \o forms
                  ELSE forms
        update_record == dict_get(p1, "update_record")
        p2 == dict_pop(p1, "update_record")
    IN  IF truthy(update_record) THEN update_matching(forms1, p2) ELSE forms1

\* The list form_submit leaves in ALL_FORMS once validation has passed.
\* add_record is popped, the record appended, and only then update_record popped.
forms_after_submit(forms, params) ==
    LET add_record == dict_get(params, "add_record")
        p1 == dict_pop(params, "add_record")
        forms1 == IF truthy(add_record)
                  THEN Append(forms, joined_record(p1))
                  ELSE forms
        update_record == dict_get(p1, "update_record")
        p2 == dict_pop(p1, "update_record")
    IN  IF truthy(update_record) THEN update_matching(forms1, p2) ELSE forms1

\* Whether the add branch raises (before anything is appended).
submit_raises(params) ==
    /\ truthy(dict_get(params, "add_record"))
    /\ joined_record_raises(dict_pop(params, "add_record"))

\* Mutant: only the first name is required.
names_missing_first_only(params) ==
    ~truthy(dict_get(params, "client_first_name"))

names_missing(params) ==
    \/ ~truthy(dict_get(params, "client_first_name"))
    \/ ~truthy(dict_get(params, "client_last_name"))

investment_missing(params) ==
    \/ ~truthy(dict_get(params, "investment_types"))
    \/ ~truthy(dict_get(params, "risk_profile"))

\* POST /form_submit
form_submit(params) ==
    /\ request' = [op |-> "form_submit", params |-> params]
    /\ IF names_missing(params)
       THEN /\ response' = BadRequest(ErrNames)
            /\ UNCHANGED ALL_FORMS
       ELSE IF investment_missing(params)
       THEN /\ response' = BadRequest(ErrInvestment)
            /\ UNCHANGED ALL_FORMS
       ELSE IF submit_raises(params)
       THEN /\ response' = ServerError
            /\ UNCHANGED ALL_FORMS
       ELSE /\ ALL_FORMS' = forms_after_submit(ALL_FORMS, params)
            /\ response' = Success
    /\ UNCHANGED <<WIDGETS, applied, wrappers, pending>>

\* The default record returned while nothing is stored.
EmptyRecord ==
    [k \in {"client_first_name", "client_last_name", "investment_types", "risk_profile"}
        |-> PyNone]

\* Mutant: the stored list is returned even when it is empty.
all_forms_result_no_default(forms) == forms

\* The value all_forms returns.
all_forms_result(forms) == IF forms # <<>> THEN forms ELSE <<EmptyRecord>>

\* GET /all_forms
all_forms ==
    /\ request' = [op |-> "all_forms"]
    /\ response' = [status |-> 200, content |-> all_forms_result(ALL_FORMS)]
    /\ UNCHANGED <<WIDGETS, applied, wrappers, ALL_FORMS, pending>>

\* What a call of a decorated function returns: markdown_widget its text,
\* all_forms the stored records or the default record.
func_result(func) ==
    CASE func.name = "markdown_widget" -> "# Markdown Widget"
      [] func.name = "all_forms" -> all_forms_result(ALL_FORMS)

\* Mutant: the registration is made by the wrapper, on every call.
call_wrapper_registering(w) ==
    /\ request' = [op |-> "call_wrapper", wrapper |-> w]
    /\ response' = [status |-> 200, content |-> func_result(w.func)]
    /\ WIDGETS' = dict_set(WIDGETS, PyStr(w.func.name),
                           [endpoint |-> PyStr(w.func.name), id |-> PyStr(w.func.name)])
    /\ UNCHANGED <<applied, wrappers, ALL_FORMS, pending>>

\* Calling a wrapper the decorator returned: func runs and its value comes back.
call_wrapper(w) ==
    /\ request' = [op |-> "call_wrapper", wrapper |-> w]
    /\ response' = [status |-> 200, content |-> func_result(w.func)]
    /\ UNCHANGED <<WIDGETS, applied, wrappers, ALL_FORMS, pending>>

----------------------------------------------------------------------------
(* The requests the form endpoints are driven with *)

\* At most this many records are stored: form_submit requests that would add
\* one more are not issued.
MaxForms == 2

\* A key left out of the submitted JSON object.
Absent == [t |-> "absent"]

\* The JSON object with the given values, absent keys left out.
FormParams(first, last, inv, risk, add, update) ==
    LET f == [client_first_name |-> first, client_last_name |-> last,
              investment_types |-> inv, risk_profile |-> risk,
              add_record |-> add, update_record |-> update]
    IN  [k \in {k \in DOMAIN f : f[k] # Absent} |-> f[k]]

StocksBonds == PyList(<<PyStr("stocks"), PyStr("bonds")>>)
MixedList == PyList(<<PyStr("stocks"), PyInt(7)>>)
Flags == {Absent, PyBool(FALSE), PyBool(TRUE)}

Etfs == PyList(<<PyStr("etfs")>>)

\* The clients whose forms are submitted: <<first name, last name>>.
Clients == {"Ann", "Bob"} \X {"Lee", "Kim"}

\* The submissions of the form widget: every client with either button, both
\* or none; a change of one client's investment types; and two submissions
\* the validation rejects.
ClientParams ==
    { FormParams(PyStr(c[1]), PyStr(c[2]), StocksBonds, PyStr("low"), add, update) :
        c \in Clients, add \in Flags, update \in Flags }
    \cup
    { FormParams(PyStr("Ann"), PyStr("Lee"), Etfs, PyStr("low"), Absent, PyBool(TRUE)) }
    \cup
    { FormParams(PyStr("Ann"), PyStr(""), StocksBonds, PyStr("low"), PyBool(TRUE), Absent),
      FormParams(PyStr("Bob"), PyStr("Lee"), PyList(<< >>), PyStr("low"), Absent, PyBool(TRUE)) }

\* Submissions whose required fields are missing, empty, null or given, or
\* whose list of investment types holds a number.
ProbeParams ==
    { FormParams(first, last, inv, risk, fl[1], fl[2]) :
        first \in {Absent, PyStr(""), PyNone, PyStr("Ann")},
        last \in {Absent, PyStr(""), PyStr("Lee")},
        inv \in {Absent, PyList(<<>>), StocksBonds, MixedList},
        risk \in {Absent, PyStr(""), PyStr("low")},
        fl \in { <<PyBool(TRUE), Absent>>, <<Absent, PyBool(TRUE)>>,
                 <<PyBool(TRUE), PyBool(TRUE)>>, <<PyBool(FALSE), PyBool(FALSE)>> } }

Init ==
    /\ WIDGETS = << >>
    /\ applied = << >>
    /\ wrappers = {}
    /\ ALL_FORMS = << >>
    /\ request = [op |-> "start"]
    /\ response = [status |-> 0]
    /\ pending = EmptyBag

\* A form_submit request drawn from S.
SubmitForm(S) ==
    \E params \in S :
        /\ truthy(dict_get(params, "add_record")) => Len(ALL_FORMS) < MaxForms
        /\ form_submit(params)

SubmitClientForm == SubmitForm(ClientParams)
SubmitProbeForm == SubmitForm(ProbeParams)
GetAllForms == all_forms

\* The form widget in use: complete submissions and refreshes.
NextForms == SubmitClientForm \/ GetAllForms
SpecForms == Init /\ [][NextForms]_vars

\* The validation of form_submit: submissions with fields missing or empty.
NextFormValidation == SubmitProbeForm \/ GetAllForms
SpecFormValidation == Init /\ [][NextFormValidation]_vars

----------------------------------------------------------------------------
(* The registrations and calls the registry is driven with *)

\* At most this many decorator applications are made.
MaxApplied == 3

\* A widget configuration with the given values, absent keys left out.
WidgetConfig(endpoint, id, name) ==
    LET f == [endpoint |-> endpoint, id |-> id, name |-> name]
    IN  [k \in {k \in DOMAIN f : f[k] # Absent} |-> f[k]]

\* Configurations with and without an endpoint and an id of their own.
WidgetConfigs ==
    { WidgetConfig(PyStr("markdown_widget"), Absent, PyStr("Markdown Widget")),
      WidgetConfig(PyStr("markdown_widget"), Absent, PyStr("Markdown Widget v2")),
      WidgetConfig(PyStr("markdown_widget"), PyStr("custom_id"), PyStr("Markdown Widget")),
      WidgetConfig(PyStr("table_widget"), Absent, PyStr("Table Widget")),
      WidgetConfig(PyStr("table_widget"), PyStr("markdown_widget"), PyStr("Table Widget")),
      WidgetConfig(PyStr("all_forms"), PyNone, PyStr("Entry Form")),
      WidgetConfig(Absent, Absent, PyStr("No endpoint")),
      WidgetConfig(PyStr(""), Absent, PyStr("Empty endpoint")),
      WidgetConfig(PyNone, PyStr("custom_id"), PyStr("Null endpoint")) }

\* The functions decorated: a plain one and a coroutine function.
Handlers ==
    { [name |-> "markdown_widget", is_coroutine |-> FALSE],
      [name |-> "all_forms", is_coroutine |-> TRUE] }

\* The categories /document_options is asked for.
Categories == {"all", "reports", "presentations", "other"}

\* A decorator application with a configuration drawn from S.
Register(S) ==
    \E widget_config \in S, func \in Handlers :
        /\ Len(applied) < MaxApplied
        /\ register_widget(widget_config, func)

RegisterWidget == Register(WidgetConfigs)

CallWrapper == \E w \in wrappers : call_wrapper(w)
GetWidgets == get_widgets
GetAdvancedDropdownOptions == advanced_dropdown_options
GetDocumentOptions == \E category \in Categories : get_document_options(category)

NextRegistry ==
    \/ RegisterWidget
    \/ CallWrapper
    \/ GetWidgets
    \/ GetAdvancedDropdownOptions
    \/ GetDocumentOptions

SpecRegistry == Init /\ [][NextRegistry]_vars

\* The reference backend as a whole: its registry, its undecorated option
\* endpoints and its form endpoints in one process.
BackendConfigs ==
    { WidgetConfig(PyStr("markdown_widget"), Absent, PyStr("Markdown Widget")),
      WidgetConfig(PyStr("all_forms"), Absent, PyStr("Entry Form")),
      WidgetConfig(Absent, Absent, PyStr("No endpoint")) }

BackendParams ==
    { FormParams(PyStr("Ann"), PyStr("Lee"), StocksBonds, PyStr("low"), PyBool(TRUE), Absent),
      FormParams(PyStr("Ann"), PyStr("Lee"), Etfs, PyStr("low"), Absent, PyBool(TRUE)),
      FormParams(PyStr("Ann"), PyStr(""), StocksBonds, PyStr("low"), PyBool(TRUE), Absent) }

RegisterBackendWidget == Register(BackendConfigs)
SubmitBackendForm == SubmitForm(BackendParams)

NextBackend ==
    \/ RegisterBackendWidget
    \/ CallWrapper
    \/ GetWidgets
    \/ GetAdvancedDropdownOptions
    \/ GetDocumentOptions
    \/ SubmitBackendForm
    \/ GetAllForms

SpecBackend == Init /\ [][NextBackend]_vars

----------------------------------------------------------------------------
(* Properties of the widget registry *)

\* A value counts as given when it is neither missing, null nor empty.
IsGiven(d, key) ==
    /\ key \in DOMAIN d
    /\ d[key] \notin {PyNone, PyStr(""), PyList(<< >>)}

\* The endpoints of the configurations registered so far.
RegisteredEndpoints ==
    { applied[i]["endpoint"] : i \in {j \in 1..Len(applied) : IsGiven(applied[j], "endpoint")} }

\* C1: the keys of WIDGETS are exactly the truthy endpoints of the
\* configurations registered so far, every entry is stored under its own
\* endpoint, and get_widgets returns exactly WIDGETS.
C1_RegistryKeys ==
    /\ DOMAIN WIDGETS = RegisteredEndpoints
    /\ \A k \in DOMAIN WIDGETS :
          "endpoint" \in DOMAIN WIDGETS[k] /\ WIDGETS[k]["endpoint"] = k
    /\ request.op = "get_widgets" => response.content = WIDGETS

\* Two endpoints are registered, a configuration without endpoint was
\* applied too, and /widgets.json has just been served.
C1_Witness ==
    /\ request.op = "get_widgets"
    /\ Cardinality(DOMAIN WIDGETS) = 2
    /\ \E i \in 1..Len(applied) : ~IsGiven(applied[i], "endpoint")
    /\ response.content = WIDGETS

\* C2: every stored configuration has an "id"; a registration sets it to the
\* endpoint when the configuration has none and keeps the configuration's own
\* id (whatever it is) otherwise.
C2_IdField ==
    /\ \A k \in DOMAIN WIDGETS : "id" \in DOMAIN WIDGETS[k]
    /\ (request.op = "register_widget" /\ IsGiven(request.widget_config, "endpoint")) =>
          LET cfg == request.widget_config
              e == cfg["endpoint"]
          IN  /\ e \in DOMAIN WIDGETS
              /\ WIDGETS[e]["id"] = IF "id" \in DOMAIN cfg THEN cfg["id"] ELSE e
              /\ \A k \in DOMAIN cfg : WIDGETS[e][k] = cfg[k]

\* A configuration with an id of its own has just been registered, next to
\* one that got its endpoint as id.
C2_Witness ==
    /\ request.op = "register_widget"
    /\ IsGiven(request.widget_config, "endpoint")
    /\ "id" \in DOMAIN request.widget_config
    /\ WIDGETS[request.widget_config["endpoint"]]["id"] = PyStr("custom_id")
    /\ \E k \in DOMAIN WIDGETS : WIDGETS[k]["id"] = k

\* C3: only a decorator application changes WIDGETS: calling a decorated
\* handler, an undecorated endpoint, the form endpoints or get_widgets leaves
\* it as it was, and a key enters WIDGETS only as the endpoint of the
\* configuration being registered.
C3_OnlyRegisterChanges ==
    [][ /\ request'.op # "register_widget" => WIDGETS' = WIDGETS
        /\ \A k \in DOMAIN WIDGETS' \ DOMAIN WIDGETS :
              /\ request'.op = "register_widget"
              /\ IsGiven(request'.widget_config, "endpoint")
              /\ k = request'.widget_config["endpoint"] ]_vars

\* With a widget registered, a form has been stored through the undecorated
\* /form_submit and a wrapper has been called.
C3_Witness ==
    /\ DOMAIN WIDGETS = {PyStr("all_forms")}
    /\ Len(applied) >= 2
    /\ ALL_FORMS # << >>
    /\ request.op \in {"call_wrapper", "get_document_options", "form_submit"}

----------------------------------------------------------------------------
(* Properties of the form endpoints *)

RequiredNames == {"client_first_name", "client_last_name"}
RequiredInvestment == {"investment_types", "risk_profile"}
ActionFlags == {"add_record", "update_record"}

\* Every key of keys is given in the submitted params.
AllGiven(params, keys) == \A k \in keys : IsGiven(params, k)

\* The submitted flag is present and true.
FlagSet(params, flag) == flag \in DOMAIN params /\ params[flag] = PyBool(TRUE)

\* First and last name of a stored record.
ClientName(record) == <<record["client_first_name"], record["client_last_name"]>>

\* The step answers a form_submit request.
IsSubmit == request'.op = "form_submit"

\* C4: a submission without first or last name is answered 400 with the name
\* error, one with both names but without investment types or risk profile is
\* answered 400 with the investment error, and neither changes ALL_FORMS,
\* whatever the action flags are.
C4_ValidationRejects ==
    [][ IsSubmit =>
          LET params == request'.params
          IN  /\ ~AllGiven(params, RequiredNames) =>
                    /\ response'.status = 400
                    /\ response'.content = [error |-> "Client first name and last name are required"]
                    /\ ALL_FORMS' = ALL_FORMS
              /\ (AllGiven(params, RequiredNames) /\ ~AllGiven(params, RequiredInvestment)) =>
                    /\ response'.status = 400
                    /\ response'.content = [error |-> "Investment types and risk profile are required"]
                    /\ ALL_FORMS' = ALL_FORMS ]_vars

\* With a record stored, a submission lacking a name and the investment types
\* and carrying both flags has been answered with the name error.
C4_Witness ==
    /\ request.op = "form_submit"
    /\ ~AllGiven(request.params, RequiredNames)
    /\ ~AllGiven(request.params, RequiredInvestment)
    /\ FlagSet(request.params, "add_record") /\ FlagSet(request.params, "update_record")
    /\ response = BadRequest(ErrNames)
    /\ ALL_FORMS # << >>

\* C5 (as claimed): a valid submission with a truthy add_record appends exactly
\* one record holding the submitted fields with lists joined, leaves every
\* record stored before unchanged and is answered 200 {"success": true}.
C5_AddAppendsOne ==
    [][ (IsSubmit /\ AllGiven(request'.params, RequiredNames \cup RequiredInvestment)
            /\ FlagSet(request'.params, "add_record")) =>
          LET params == request'.params
              n == Len(ALL_FORMS)
          IN  /\ Len(ALL_FORMS') = n + 1
              /\ \A i \in 1..n : ALL_FORMS'[i] = ALL_FORMS[i]
              /\ \A k \in DOMAIN params \ ActionFlags :
                    /\ k \in DOMAIN ALL_FORMS'[n + 1]
                    /\ ALL_FORMS'[n + 1][k] =
                          IF params[k].t = "list" THEN PyStr(str_join(params[k].l)) ELSE params[k]
              /\ response' = Success ]_vars

\* C6 (as claimed): no stored record has the key add_record or update_record.
C6_NoFlagsStored ==
    \A i \in 1..Len(ALL_FORMS) : DOMAIN ALL_FORMS[i] \cap ActionFlags = {}

\* C7 (as claimed): no field of a stored record is a list.
C7_NoListStored ==
    \A i \in 1..Len(ALL_FORMS) : \A k \in DOMAIN ALL_FORMS[i] : ALL_FORMS[i][k].t # "list"

\* C8: a valid submission with a truthy update_record and no truthy add_record
\* writes the submitted fields over every record with the submitted first and
\* last name, and leaves the other records, the length and the order alone.
C8_UpdateOverwrites ==
    [][ (IsSubmit /\ AllGiven(request'.params, RequiredNames \cup RequiredInvestment)
            /\ FlagSet(request'.params, "update_record")
            /\ ~FlagSet(request'.params, "add_record")) =>
          LET params == request'.params
              fields == DOMAIN params \ ActionFlags
          IN  /\ Len(ALL_FORMS') = Len(ALL_FORMS)
              /\ \A i \in 1..Len(ALL_FORMS) :
                    IF ClientName(ALL_FORMS[i]) = ClientName(params)
                    THEN /\ DOMAIN ALL_FORMS'[i] = DOMAIN ALL_FORMS[i] \cup fields
                         /\ \A k \in fields : ALL_FORMS'[i][k] = params[k]
                         /\ \A k \in DOMAIN ALL_FORMS[i] \ fields :
                               ALL_FORMS'[i][k] = ALL_FORMS[i][k]
                    ELSE ALL_FORMS'[i] = ALL_FORMS[i] ]_vars

\* An update has rewritten the investment types of one client's record while
\* the record of a client with the same first name keeps its own.
C8_Witness ==
    /\ request.op = "form_submit"
    /\ FlagSet(request.params, "update_record") /\ ~FlagSet(request.params, "add_record")
    /\ response = Success
    /\ \E i, j \in 1..Len(ALL_FORMS) :
          /\ ClientName(ALL_FORMS[i]) = ClientName(request.params)
          /\ ALL_FORMS[i]["investment_types"] = Etfs
          /\ ALL_FORMS[j]["client_first_name"] = request.params["client_first_name"]
          /\ ALL_FORMS[j]["client_last_name"] # request.params["client_last_name"]
          /\ ALL_FORMS[j]["investment_types"] = PyStr("stocks,bonds")

\* C9: all_forms returns the stored records in order when there are any and
\* otherwise one record whose four fields are null, and never changes ALL_FORMS.
C9_AllFormsResult ==
    [][ request'.op = "all_forms" =>
          /\ ALL_FORMS' = ALL_FORMS
          /\ response'.status = 200
          /\ IF Len(ALL_FORMS) > 0
             THEN response'.content = ALL_FORMS
             ELSE /\ Len(response'.content) = 1
                  /\ DOMAIN response'.content[1] = RequiredNames \cup RequiredInvestment
                  /\ \A k \in DOMAIN response'.content[1] : response'.content[1][k] = PyNone ]_vars

\* all_forms has answered with two stored records of different clients.
C9_Witness ==
    /\ request.op = "all_forms"
    /\ Len(ALL_FORMS) = 2
    /\ ClientName(ALL_FORMS[1]) # ClientName(ALL_FORMS[2])
    /\ response.content = ALL_FORMS

\* C10: a record added with answer 200 stays at its position with its first
\* and last name in ALL_FORMS and in every all_forms response; the length of
\* ALL_FORMS never decreases; a request answered 400 changes nothing.
C10_SubmitThenRefresh ==
    [][ /\ Len(ALL_FORMS') >= Len(ALL_FORMS)
        /\ \A i \in 1..Len(ALL_FORMS) : ClientName(ALL_FORMS'[i]) = ClientName(ALL_FORMS[i])
        /\ (IsSubmit /\ FlagSet(request'.params, "add_record") /\ response'.status = 200) =>
              /\ Len(ALL_FORMS') = Len(ALL_FORMS) + 1
              /\ ClientName(ALL_FORMS'[Len(ALL_FORMS')]) = ClientName(request'.params)
        /\ request'.op = "all_forms" =>
              /\ Len(response'.content) >= Len(ALL_FORMS)
              /\ \A i \in 1..Len(ALL_FORMS) :
                    ClientName(response'.content[i]) = ClientName(ALL_FORMS[i])
        /\ (IsSubmit /\ response'.status = 400) => ALL_FORMS' = ALL_FORMS ]_vars

\* A refresh shows two records added for the same client, both kept.
C10_Witness ==
    /\ request.op = "all_forms"
    /\ Len(ALL_FORMS) = 2
    /\ ClientName(ALL_FORMS[1]) = ClientName(ALL_FORMS[2])
    /\ Len(response.content) = 2
    /\ ClientName(response.content[2]) = ClientName(ALL_FORMS[2])

----------------------------------------------------------------------------
(* The multi file viewer: get_whitepapers_base64 and get_whitepapers_url *)

\* The whitepapers dict of widget-types/multi_file_viewer/main.py.
whitepapers ==
    [k \in {"bitcoin.pdf", "ethereum.pdf", "chainlink.pdf", "solana.pdf"} |->
        [label |-> CASE k = "bitcoin.pdf" -> "Bitcoin"
                     [] k = "ethereum.pdf" -> "Ethereum"
                     [] k = "chainlink.pdf" -> "Chainlink"
                     [] k = "solana.pdf" -> "Solana",
         filename |-> k,
         url |-> "https://openbb-assets.s3.us-east-1.amazonaws.com/testing/" \o k,
         category |-> IF k = "chainlink.pdf" THEN "oracles" ELSE "l1"]]

\* The base64 alphabet.
B64_ALPHABET ==
    << "A", "B", "C", "D", "E", "F", "G", "H", "I", "J", "K", "L", "M",
       "N", "O", "P", "Q", "R", "S", "T", "U", "V", "W", "X", "Y", "Z",
       "a", "b", "c", "d", "e", "f", "g", "h", "i", "j", "k", "l", "m",
       "n", "o", "p", "q", "r", "s", "t", "u", "v", "w", "x", "y", "z",
       "0", "1", "2", "3", "4", "5", "6", "7", "8", "9", "+", "/" >>

\* The four characters encoding a group of one to three bytes.
b64_group(bytes) ==
    LET b2 == IF Len(bytes) >= 2 THEN bytes[2] ELSE 0
        b3 == IF Len(bytes) >= 3 THEN bytes[3] ELSE 0
        n == bytes[1] * 65536 + b2 * 256 + b3
        c1 == B64_ALPHABET[(n \div 262144) + 1]
        c2 == B64_ALPHABET[((n \div 4096) % 64) + 1]
        c3 == B64_ALPHABET[((n \div 64) % 64) + 1]
        c4 == B64_ALPHABET[(n % 64) + 1]
    IN  CASE Len(bytes) = 1 -> c1 \o c2 \o "=="
          [] Len(bytes) = 2 -> c1 \o c2 \o c3 \o "="
          [] OTHER -> c1 \o c2 \o c3 \o c4

\* base64.b64encode(data).decode("utf-8")
RECURSIVE b64encode(_)
b64encode(bytes) ==
    IF bytes = << >> THEN ""
    ELSE IF Len(bytes) <= 3 THEN b64_group(bytes)
    ELSE b64_group(SubSeq(bytes, 1, 3)) \o b64encode(SubSeq(bytes, 4, Len(bytes)))

\* DataFormat(data_type="pdf", filename=...).model_dump()
DataFormat(filename) == [data_type |-> "pdf", filename |-> filename]
\* DataContent(...).model_dump()
DataContent(content, filename) == [content |-> content, data_format |-> DataFormat(filename)]
\* DataUrl(...).model_dump()
DataUrl(url, filename) == [url |-> url, data_format |-> DataFormat(filename)]
\* DataError(error_type="not_found", content=...).model_dump()
DataError(content) == [error_type |-> "not_found", content |-> content]

\* An entry of the working directory: <<"file", bytes>> for a file with its
\* bytes, <<"dir">> for a directory.
RegularFile(bytes) == <<"file", bytes>>
Directory == <<"dir">>

\* open(file_path, "rb") raises on a path that exists but is no readable
\* file; nothing in the handler catches it.
open_raises(entry) == entry[1] # "file"

\* file.read() on an opened file.
file_read(entry) == entry[2]

\* The entry get_whitepapers_base64 appends for one name; cwd maps the names
\* that exist in the working directory to what lies there.
base64_entry(name, cwd) ==
    IF name \in DOMAIN whitepapers
    THEN LET file_name_with_extension == whitepapers[name].filename
         IN  IF file_name_with_extension \in DOMAIN cwd
             THEN DataContent(b64encode(file_read(cwd[file_name_with_extension])),
                              file_name_with_extension)
             ELSE DataError("File not found")
    ELSE DataError("Whitepaper '" \o name \o "' not found")

\* The entry get_whitepapers_url appends for one name.
url_entry(name) ==
    IF name \in DOMAIN whitepapers
    THEN LET file_name_with_extension == whitepapers[name].filename
         IN  IF "url" \in DOMAIN whitepapers[name] /\ whitepapers[name].url # ""
             THEN DataUrl(whitepapers[name].url, file_name_with_extension)
             ELSE DataError("URL not found")
    ELSE DataError("Whitepaper '" \o name \o "' not found")

\* Mutant: names that are no whitepaper are skipped instead of reported.
RECURSIVE base64_files_skipping(_, _)
base64_files_skipping(filename, cwd) ==
    IF filename = << >> THEN << >>
    ELSE IF Head(filename) \in DOMAIN whitepapers
         THEN <<base64_entry(Head(filename), cwd)>> \o base64_files_skipping(Tail(filename), cwd)
         ELSE base64_files_skipping(Tail(filename), cwd)

\* The list files after the loop of get_whitepapers_base64.
RECURSIVE base64_files(_, _)
base64_files(filename, cwd) ==
    IF filename = << >> THEN << >>
    ELSE <<base64_entry(Head(filename), cwd)>> \o base64_files(Tail(filename), cwd)

\* The list files after the loop of get_whitepapers_url.
RECURSIVE url_files(_)
url_files(filename) ==
    IF filename = << >> THEN << >>
    ELSE <<url_entry(Head(filename))>> \o url_files(Tail(filename))

\* The loop of get_whitepapers_base64 raises when it comes to a whitepaper
\* whose path exists and cannot be opened.
base64_raises(filename, cwd) ==
    \E i \in 1..Len(filename) :
        /\ filename[i] \in DOMAIN whitepapers
        /\ whitepapers[filename[i]].filename \in DOMAIN cwd
        /\ open_raises(cwd[whitepapers[filename[i]].filename])

\* GET /whitepapers/base64?filename=...&filename=...
get_whitepapers_base64(filename, cwd) ==
    /\ request' = [op |-> "get_whitepapers_base64", filename |-> filename, cwd |-> cwd]
    /\ response' = IF base64_raises(filename, cwd)
                   THEN ServerError
                   ELSE [status |-> 200, content |-> base64_files(filename, cwd)]
    /\ UNCHANGED <<WIDGETS, applied, wrappers, ALL_FORMS, pending>>

\* GET /whitepapers/url?filename=...&filename=...
get_whitepapers_url(filename) ==
    /\ request' = [op |-> "get_whitepapers_url", filename |-> filename]
    /\ response' = [status |-> 200, content |-> url_files(filename)]
    /\ UNCHANGED <<WIDGETS, applied, wrappers, ALL_FORMS, pending>>

\* At most this many filenames are requested at once.
MaxFilenames == 3

\* The names asked for: whitepapers and a file that is none.
RequestedNames == {"bitcoin.pdf", "solana.pdf", "notes.pdf"}

\* The filename lists: Query(...) requires at least one name.
FilenameLists == UNION { [1..n -> RequestedNames] : n \in 1..MaxFilenames }

\* The bytes of the files that may lie in the working directory.
DiskFiles ==
    [k \in {"bitcoin.pdf", "notes.pdf"} |->
        CASE k = "bitcoin.pdf" -> <<37, 80, 68, 70>>
          [] k = "notes.pdf" -> <<255, 0, 16>>]

\* The working directories: each of those names absent, a file with its
\* bytes, or a directory.
WorkingDirs ==
    UNION { [S -> {"file", "dir"}] : S \in SUBSET DOMAIN DiskFiles }

\* What lies in a working directory under each name.
DirEntries(kinds) ==
    [k \in DOMAIN kinds |->
        IF kinds[k] = "file" THEN RegularFile(DiskFiles[k]) ELSE Directory]

GetWhitepapersBase64 ==
    \E filename \in FilenameLists, kinds \in WorkingDirs :
        get_whitepapers_base64(filename, DirEntries(kinds))

GetWhitepapersUrl == \E filename \in FilenameLists : get_whitepapers_url(filename)

NextWhitepapers == GetWhitepapersBase64 \/ GetWhitepapersUrl
SpecWhitepapers == Init /\ [][NextWhitepapers]_vars

\* C11: both endpoints answer with one entry per requested filename, in the
\* order requested and duplicates included: a content (or url) object naming
\* the file when it is a known whitepaper whose file (url) is available, and
\* a not_found error otherwise.
C11_OneEntryPerFilename ==
    request.op \in {"get_whitepapers_base64", "get_whitepapers_url"} =>
        LET names == request.filename
            files == response.content
            payload == IF request.op = "get_whitepapers_base64" THEN "content" ELSE "url"
            available(name) ==
                /\ name \in {"bitcoin.pdf", "ethereum.pdf", "chainlink.pdf", "solana.pdf"}
                /\ request.op = "get_whitepapers_base64" =>
                      /\ name \in DOMAIN request.cwd
                      /\ request.cwd[name][1] = "file"
        IN  /\ "content" \in DOMAIN response
            /\ Len(files) = Len(names)
            /\ \A i \in 1..Len(names) :
                  IF available(names[i])
                  THEN /\ DOMAIN files[i] = {payload, "data_format"}
                       /\ files[i].data_format = [data_type |-> "pdf", filename |-> names[i]]
                  ELSE /\ DOMAIN files[i] = {"error_type", "content"}
                       /\ files[i].error_type = "not_found"

\* The same whitepaper was asked for twice around a name that is none, with
\* its file on disk: content, error, content.
C11_Witness ==
    /\ request.op = "get_whitepapers_base64"
    /\ request.filename = <<"bitcoin.pdf", "notes.pdf", "bitcoin.pdf">>
    /\ "notes.pdf" \in DOMAIN request.cwd
    /\ response.status = 200
    /\ response.content[1] = DataContent("JVBERg==", "bitcoin.pdf")
    /\ response.content[2].error_type = "not_found"
    /\ response.content[3] = response.content[1]

\* ---------------------------------------------------------------------------
\* UDF symbol search (reference backend and the Kraken charting example).
\* Strings of this section are sequences of one-character strings, so that
\* lower() and the substring test are computed character by character.
\* ---------------------------------------------------------------------------

ascii_uppercase == <<"A", "B", "C", "D", "E", "F", "G", "H", "I", "J", "K", "L", "M", "N", "O", "P", "Q", "R", "S", "T", "U", "V", "W", "X", "Y", "Z">>
ascii_lowercase == <<"a", "b", "c", "d", "e", "f", "g", "h", "i", "j", "k", "l", "m", "n", "o", "p", "q", "r", "s", "t", "u", "v", "w", "x", "y", "z">>

\* The lower-case letter of each upper-case letter.
upper_to_lower ==
    [c \in {ascii_uppercase[j] : j \in 1..Len(ascii_uppercase)} |->
        ascii_lowercase[CHOOSE j \in 1..Len(ascii_uppercase) : ascii_uppercase[j] = c]]

\* str.lower() on ASCII text.
lower(s) ==
    [i \in 1..Len(s) |->
        IF s[i] \in DOMAIN upper_to_lower THEN upper_to_lower[s[i]] ELSE s[i]]

\* Python's `sub in s` on strings.
str_in(sub, s) ==
    \E i \in 0..(Len(s) - Len(sub)) : SubSeq(s, i + 1, i + Len(sub)) = sub

\* str.startswith.
startswith(s, prefix) ==
    /\ Len(prefix) <= Len(s)
    /\ SubSeq(s, 1, Len(prefix)) = prefix

\* The items of MOCK_SYMBOLS in dict order.
MOCK_SYMBOLS ==
    <<
      [symbol |-> <<"A", "A", "P", "L">>,
       info |-> [name |-> <<"A", "p", "p", "l", "e", " ", "I", "n", "c", ".">>,
                 description |-> <<"A", "p", "p", "l", "e", " ", "I", "n", "c", ".", " ", "S", "t", "o", "c", "k">>,
                 type |-> <<"s", "t", "o", "c", "k">>,
                 exchange |-> <<"N", "A", "S", "D", "A", "Q">>,
                 pricescale |-> 100, minmov |-> 1, volume_precision |-> 0]],
      [symbol |-> <<"M", "S", "F", "T">>,
       info |-> [name |-> <<"M", "i", "c", "r", "o", "s", "o", "f", "t", " ", "C", "o", "r", "p", "o", "r", "a", "t", "i", "o", "n">>,
                 description |-> <<"M", "i", "c", "r", "o", "s", "o", "f", "t", " ", "C", "o", "r", "p", "o", "r", "a", "t", "i", "o", "n", " ", "S", "t", "o", "c", "k">>,
                 type |-> <<"s", "t", "o", "c", "k">>,
                 exchange |-> <<"N", "A", "S", "D", "A", "Q">>,
                 pricescale |-> 100, minmov |-> 1, volume_precision |-> 0]],
      [symbol |-> <<"G", "O", "O", "G", "L">>,
       info |-> [name |-> <<"A", "l", "p", "h", "a", "b", "e", "t", " ", "I", "n", "c", ".">>,
                 description |-> <<"A", "l", "p", "h", "a", "b", "e", "t", " ", "I", "n", "c", ".", " ", "S", "t", "o", "c", "k">>,
                 type |-> <<"s", "t", "o", "c", "k">>,
                 exchange |-> <<"N", "A", "S", "D", "A", "Q">>,
                 pricescale |-> 100, minmov |-> 1, volume_precision |-> 0]]>>

\* The dict appended for one matching symbol.
search_result(item) ==
    [symbol |-> item.symbol,
     full_name |-> <<"N", "A", "S", "D", "A", "Q", ":">> \o item.symbol,
     description |-> item.info.description,
     exchange |-> <<"N", "A", "S", "D", "A", "Q">>,
     ticker |-> item.symbol,
     type |-> <<"s", "t", "o", "c", "k">>]

symbol_matches(query, item) ==
    \/ str_in(lower(query), lower(item.symbol))
    \/ str_in(lower(query), lower(item.info.name))

\* The loop of search_symbols from item i on: a match is appended, and only
\* then is the length compared with limit.
RECURSIVE search_loop(_, _, _, _)
search_loop(query, limit, i, results) ==
    IF i > Len(MOCK_SYMBOLS) THEN results
    ELSE IF symbol_matches(query, MOCK_SYMBOLS[i])
         THEN LET appended == Append(results, search_result(MOCK_SYMBOLS[i]))
              IN  IF Len(appended) >= limit THEN appended
                  ELSE search_loop(query, limit, i + 1, appended)
         ELSE search_loop(query, limit, i + 1, results)

search_results(query, limit) == search_loop(query, limit, 1, << >>)

\* GET /udf/search of the reference backend.
search_symbols(query, limit) ==
    /\ request' = [op |-> "search_symbols", query |-> query, limit |-> limit]
    /\ response' = [content |-> search_results(query, limit)]
    /\ UNCHANGED <<WIDGETS, applied, wrappers, ALL_FORMS, pending>>

\* pair_info.get(key, default).
pair_get(pair_info, key, default) ==
    IF key \in DOMAIN pair_info THEN pair_info[key] ELSE default

pair_matches(query, pair) ==
    \/ str_in(lower(query), lower(pair.pair_name))
    \/ str_in(lower(query), lower(pair_get(pair.pair_info, "base", << >>)))
    \/ str_in(lower(query), lower(pair_get(pair.pair_info, "quote", << >>)))

filtered_symbol(pair) ==
    [symbol |-> pair.pair_name,
     wsname |-> pair_get(pair.pair_info, "wsname", pair.pair_name),
     base |-> pair_get(pair.pair_info, "base", << >>),
     quote |-> pair_get(pair.pair_info, "quote", << >>),
     altname |-> pair_get(pair.pair_info, "altname", pair.pair_name)]

\* The loop of the Kraken search over the asset pairs from pair i on: dark
\* pool pairs are skipped, and after every other pair, matching or not, the
\* length is compared with limit.
RECURSIVE kraken_loop(_, _, _, _, _)
kraken_loop(pairs, query, limit, i, filtered_symbols) ==
    IF i > Len(pairs) THEN filtered_symbols
    ELSE IF startswith(pairs[i].pair_name, <<".">>)
         THEN kraken_loop(pairs, query, limit, i + 1, filtered_symbols)
         ELSE LET after == IF pair_matches(query, pairs[i])
                           THEN Append(filtered_symbols, filtered_symbol(pairs[i]))
                           ELSE filtered_symbols
              IN  IF Len(after) >= limit THEN after
                  ELSE kraken_loop(pairs, query, limit, i + 1, after)

UDFSearchResult(symbol) ==
    [symbol |-> symbol.symbol,
     full_name |-> <<"K", "R", "A", "K", "E", "N", ":">> \o symbol.symbol,
     description |-> symbol.base \o <<"/">> \o symbol.quote,
     exchange |-> <<"K", "R", "A", "K", "E", "N">>,
     ticker |-> symbol.symbol,
     type |-> <<"c", "r", "y", "p", "t", "o">>]

\* What the Kraken search returns for a fetch outcome: a fetch that raised
\* gives [], data without "result" gives [].
kraken_search_results(fetched, query, limit) ==
    IF fetched.raises THEN << >>
    ELSE LET pairs == IF "result" \in DOMAIN fetched.data THEN fetched.data.result ELSE << >>
             filtered_symbols == kraken_loop(pairs, query, limit, 1, << >>)
         IN  [i \in 1..Len(filtered_symbols) |-> UDFSearchResult(filtered_symbols[i])]

\* A call of the Kraken search, as it waits for its fetch.
KrakenCall(query, limit) == [op |-> "kraken_search_symbols", query |-> query, limit |-> limit]

\* GET /udf/search of the Kraken charting example, up to its await: the
\* handler calls fetch_kraken_data and is suspended until the fetch is over,
\* and other requests are answered meanwhile. Nothing is answered yet.
kraken_search_symbols_call(query, limit) ==
    /\ pending' = pending (+) SetToBag({KrakenCall(query, limit)})
    /\ UNCHANGED <<WIDGETS, applied, wrappers, ALL_FORMS, request, response>>

\* The fetch of a suspended call is over, with the outcome fetched: the
\* handler goes on from the await to its answer.
kraken_search_symbols_return(fetched, query, limit) ==
    /\ BagIn(KrakenCall(query, limit), pending)
    /\ pending' = pending (-) SetToBag({KrakenCall(query, limit)})
    /\ request' = [op |-> "kraken_search_symbols", query |-> query, limit |-> limit,
                   asset_pairs |-> fetched]
    /\ response' = [content |-> kraken_search_results(fetched, query, limit)]
    /\ UNCHANGED <<WIDGETS, applied, wrappers, ALL_FORMS>>


\* Inputs of the search: the limits 0..MaxLimit and queries that match none,
\* one, two or all of the symbols, in either case.
MaxLimit == 3
Limits == 0..MaxLimit
Queries ==
    {<<>>,
     <<"a">>,
     <<"A">>,
     <<"a", "a", "p", "l">>,
     <<"A", "p", "p", "l", "e">>,
     <<"i", "n", "c">>,
     <<"s", "o", "f", "t">>,
     <<"G", "O", "O", "G">>,
     <<"o">>,
     <<"x", "y", "z">>,
     <<"u", "s", "d">>,
     <<"x", "b", "t">>,
     <<"e", "t", "h">>}

AssetPair(pair_name, pair_info) == [pair_name |-> pair_name, pair_info |-> pair_info]

\* The items of a Kraken AssetPairs result in dict order: two pairs, a dark
\* pool pair and a pair whose info has no base.
KrakenPairs ==
    <<AssetPair(<<"X", "X", "B", "T", "Z", "U", "S", "D">>, [base |-> <<"X", "X", "B", "T">>, quote |-> <<"Z", "U", "S", "D">>, wsname |-> <<"X", "B", "T", "/", "U", "S", "D">>, altname |-> <<"X", "B", "T", "U", "S", "D">>]),
      AssetPair(<<".", "X", "B", "T", "U", "S", "D">>, [base |-> <<"X", "X", "B", "T">>, quote |-> <<"Z", "U", "S", "D">>]),
      AssetPair(<<"X", "E", "T", "H", "Z", "U", "S", "D">>, [base |-> <<"X", "E", "T", "H">>, quote |-> <<"Z", "U", "S", "D">>, wsname |-> <<"E", "T", "H", "/", "U", "S", "D">>, altname |-> <<"E", "T", "H", "U", "S", "D">>]),
      AssetPair(<<"S", "O", "L", "E", "U", "R">>, [quote |-> <<"Z", "E", "U", "R">>])>>

\* Outcomes of fetch_kraken_data: it raised, data without "result", data
\* with the pairs.
KrakenFetches ==
    {[raises |-> TRUE],
     [raises |-> FALSE, data |-> [error |-> << >>]],
     [raises |-> FALSE, data |-> [error |-> << >>, result |-> KrakenPairs]]}

\* At most this many calls of the Kraken search wait for their fetch at once.
MaxPending == 2

\* The queries the Kraken search is asked: matching every pair, some, none.
KrakenQueries ==
    {<< >>, <<"E", "t", "h">>, <<"x", "y", "z">>}

SearchSymbols == \E query \in Queries, limit \in Limits : search_symbols(query, limit)
KrakenSearchCall ==
    \E query \in KrakenQueries, limit \in Limits :
        /\ BagCardinality(pending) < MaxPending
        /\ kraken_search_symbols_call(query, limit)
KrakenSearchReturn ==
    \E fetched \in KrakenFetches, query \in KrakenQueries, limit \in Limits :
        kraken_search_symbols_return(fetched, query, limit)

NextSearch == SearchSymbols \/ KrakenSearchCall \/ KrakenSearchReturn
SpecSearch == Init /\ [][NextSearch]_vars

\* The item of MOCK_SYMBOLS, or the Kraken pair, that a result was made from.
SourceOf(result) ==
    IF request.op = "search_symbols"
    THEN CHOOSE i \in 1..Len(MOCK_SYMBOLS) : MOCK_SYMBOLS[i].symbol = result.symbol
    ELSE CHOOSE i \in 1..Len(KrakenPairs) : KrakenPairs[i].pair_name = result.symbol

ResultMatches(result) ==
    IF request.op = "search_symbols"
    THEN symbol_matches(request.query, MOCK_SYMBOLS[SourceOf(result)])
    ELSE pair_matches(request.query, KrakenPairs[SourceOf(result)])

\* C12: search_symbols treats limit as the maximum number of results: for
\* every query and every limit >= 0, 0 included, the returned list has at
\* most limit entries, and each entry matches the query, case-insensitively,
\* in its symbol or its name (base or quote asset for Kraken).
C12_AtMostLimit ==
    request.op \in {"search_symbols", "kraken_search_symbols"} =>
        /\ Len(response.content) <= request.limit
        /\ \A i \in 1..Len(response.content) : ResultMatches(response.content[i])

\* ---------------------------------------------------------------------------
\* The reference backend's widgets with dependent and grouped parameters:
\* the configurations as written in the decorators, the option endpoints
\* their parameters name, and their registration.
\* ---------------------------------------------------------------------------

\* A dict inside a configuration.
PyDict(d) == [t |-> "dict", d |-> d]

\* The category dropdown and the document dropdown that depends on it.
dropdown_dependent_widget_config ==
    [ name |-> PyStr("Dropdown Dependent Widget"),
      description |-> PyStr("A simple widget with a dropdown depending on another dropdown"),
      endpoint |-> PyStr("dropdown_dependent_widget"),
      gridData |-> PyDict([w |-> PyInt(16), h |-> PyInt(6)]),
      type |-> PyStr("markdown"),
      params |-> PyList(<<
          PyDict([
              paramName |-> PyStr("category"),
              description |-> PyStr("Category of documents to fetch"),
              value |-> PyStr("all"),
              label |-> PyStr("Category"),
              type |-> PyStr("text"),
              options |-> PyList(<<
                  PyDict([label |-> PyStr("All"), value |-> PyStr("all")]),
                  PyDict([label |-> PyStr("Reports"), value |-> PyStr("reports")]),
                  PyDict([
                      label |-> PyStr("Presentations"),
                      value |-> PyStr("presentations")])>>)]),
          PyDict([
              paramName |-> PyStr("document_type"),
              description |-> PyStr("Document to display"),
              label |-> PyStr("Select Document"),
              type |-> PyStr("endpoint"),
              optionsEndpoint |-> PyStr("/document_options"),
              optionsParams |-> PyDict([category |-> PyStr("$category")])])>>) ]

\* Grouped by paramName with company_details.
company_performance_config ==
    [ name |-> PyStr("Car Manufacturer Performance"),
      description |-> PyStr("Displays performance metrics for the selected car manufacturer"),
      type |-> PyStr("table"),
      endpoint |-> PyStr("company_performance"),
      gridData |-> PyDict([w |-> PyInt(16), h |-> PyInt(8)]),
      params |-> PyList(<<
          PyDict([
              paramName |-> PyStr("company"),
              description |-> PyStr("Select a car manufacturer to view performance"),
              value |-> PyStr("TM"),
              label |-> PyStr("Manufacturer"),
              type |-> PyStr("endpoint"),
              optionsEndpoint |-> PyStr("/company_options")]),
          PyDict([
              paramName |-> PyStr("year"),
              description |-> PyStr("Select model year to view performance"),
              value |-> PyStr("2024"),
              label |-> PyStr("Model Year"),
              type |-> PyStr("text"),
              options |-> PyList(<<
                  PyDict([label |-> PyStr("2024"), value |-> PyStr("2024")]),
                  PyDict([label |-> PyStr("2023"), value |-> PyStr("2023")]),
                  PyDict([label |-> PyStr("2022"), value |-> PyStr("2022")])>>)])>>),
      data |-> PyDict([
          table |-> PyDict([
              showAll |-> PyBool(TRUE),
              columnsDefs |-> PyList(<<
                  PyDict([
                      field |-> PyStr("metric"),
                      headerName |-> PyStr("Metric"),
                      cellDataType |-> PyStr("text"),
                      width |-> PyInt(150)]),
                  PyDict([
                      field |-> PyStr("value"),
                      headerName |-> PyStr("Value"),
                      cellDataType |-> PyStr("text"),
                      width |-> PyInt(150)]),
                  PyDict([
                      field |-> PyStr("change"),
                      headerName |-> PyStr("Change"),
                      cellDataType |-> PyStr("number"),
                      formatterFn |-> PyStr("percent"),
                      renderFn |-> PyStr("greenRed"),
                      width |-> PyInt(150)])>>)])]) ]

\* Mutant: the details widget names its company parameter differently.
company_details_config_renamed ==
    [ name |-> PyStr("Car Manufacturer Details"),
      description |-> PyStr("Displays detailed information about the selected car manufacturer"),
      type |-> PyStr("markdown"),
      endpoint |-> PyStr("company_details"),
      gridData |-> PyDict([w |-> PyInt(16), h |-> PyInt(8)]),
      params |-> PyList(<<
          PyDict([
              paramName |-> PyStr("manufacturer"),
              description |-> PyStr("Select a car manufacturer to view details"),
              value |-> PyStr("TM"),
              label |-> PyStr("Manufacturer"),
              type |-> PyStr("endpoint"),
              optionsEndpoint |-> PyStr("/company_options")]),
          PyDict([
              paramName |-> PyStr("year"),
              description |-> PyStr("Select model year to view details"),
              value |-> PyStr("2024"),
              label |-> PyStr("Model Year"),
              type |-> PyStr("text"),
              options |-> PyList(<<
                  PyDict([label |-> PyStr("2024"), value |-> PyStr("2024")]),
                  PyDict([label |-> PyStr("2023"), value |-> PyStr("2023")]),
                  PyDict([label |-> PyStr("2022"), value |-> PyStr("2022")])>>)])>>) ]

\* Grouped by paramName with company_performance.
company_details_config ==
    [ name |-> PyStr("Car Manufacturer Details"),
      description |-> PyStr("Displays detailed information about the selected car manufacturer"),
      type |-> PyStr("markdown"),
      endpoint |-> PyStr("company_details"),
      gridData |-> PyDict([w |-> PyInt(16), h |-> PyInt(8)]),
      params |-> PyList(<<
          PyDict([
              paramName |-> PyStr("company"),
              description |-> PyStr("Select a car manufacturer to view details"),
              value |-> PyStr("TM"),
              label |-> PyStr("Manufacturer"),
              type |-> PyStr("endpoint"),
              optionsEndpoint |-> PyStr("/company_options")]),
          PyDict([
              paramName |-> PyStr("year"),
              description |-> PyStr("Select model year to view details"),
              value |-> PyStr("2024"),
              label |-> PyStr("Model Year"),
              type |-> PyStr("text"),
              options |-> PyList(<<
                  PyDict([label |-> PyStr("2024"), value |-> PyStr("2024")]),
                  PyDict([label |-> PyStr("2023"), value |-> PyStr("2023")]),
                  PyDict([label |-> PyStr("2022"), value |-> PyStr("2022")])>>)])>>) ]

\* The table whose symbol column groups by the parameter symbol on a click.
table_widget_with_grouping_by_cell_click_config ==
    [ name |-> PyStr("Table widget with grouping by cell click"),
      description |-> PyStr("A table widget that groups data when clicking on symbols. Click on a symbol to update all related widgets."),
      type |-> PyStr("table"),
      endpoint |-> PyStr("table_widget_with_grouping_by_cell_click"),
      params |-> PyList(<<
          PyDict([
              paramName |-> PyStr("symbol"),
              description |-> PyStr("Select stocks to display"),
              value |-> PyStr("AAPL"),
              label |-> PyStr("Symbol"),
              type |-> PyStr("endpoint"),
              optionsEndpoint |-> PyStr("/get_tickers_list"),
              multiSelect |-> PyBool(FALSE),
              show |-> PyBool(TRUE)])>>),
      data |-> PyDict([
          table |-> PyDict([
              showAll |-> PyBool(TRUE),
              columnsDefs |-> PyList(<<
                  PyDict([
                      field |-> PyStr("symbol"),
                      headerName |-> PyStr("Symbol"),
                      cellDataType |-> PyStr("text"),
                      width |-> PyInt(120),
                      pinned |-> PyStr("left"),
                      renderFn |-> PyStr("cellOnClick"),
                      renderFnParams |-> PyDict([
                          actionType |-> PyStr("groupBy"),
                          groupByParamName |-> PyStr("symbol")])]),
                  PyDict([
                      field |-> PyStr("price"),
                      headerName |-> PyStr("Price"),
                      cellDataType |-> PyStr("number"),
                      formatterFn |-> PyStr("none"),
                      width |-> PyInt(120)]),
                  PyDict([
                      field |-> PyStr("change"),
                      headerName |-> PyStr("Change"),
                      cellDataType |-> PyStr("number"),
                      formatterFn |-> PyStr("percent"),
                      renderFn |-> PyStr("greenRed"),
                      width |-> PyInt(120)]),
                  PyDict([
                      field |-> PyStr("volume"),
                      headerName |-> PyStr("Volume"),
                      cellDataType |-> PyStr("number"),
                      formatterFn |-> PyStr("int"),
                      width |-> PyInt(150)])>>)])]),
      gridData |-> PyDict([w |-> PyInt(20), h |-> PyInt(9)]) ]

\* The widget that follows the symbol clicked in the table.
widget_managed_by_parameter_from_cell_click_on_table_widget_config ==
    [ name |-> PyStr("Widget managed by parameter from cell click on table widget"),
      description |-> PyStr("This widget demonstrates how to use the grouped symbol parameter from a table widget. When a symbol is clicked in the table, this widget will automatically update to show details for the selected symbol."),
      type |-> PyStr("markdown"),
      endpoint |-> PyStr("widget_managed_by_parameter_from_cell_click_on_table_widget"),
      params |-> PyList(<<
          PyDict([
              paramName |-> PyStr("symbol"),
              description |-> PyStr("The symbol to get details for"),
              value |-> PyStr("AAPL"),
              label |-> PyStr("Symbol"),
              type |-> PyStr("endpoint"),
              optionsEndpoint |-> PyStr("/get_tickers_list"),
              show |-> PyBool(TRUE)])>>),
      gridData |-> PyDict([w |-> PyInt(20), h |-> PyInt(6)]) ]

\* The decorated functions: none is a coroutine function.
ReferenceHandler(name) == [name |-> name, is_coroutine |-> FALSE]

\* The decorator applications of these widgets: <<configuration, function>>.
ReferenceWidgets ==
    << <<dropdown_dependent_widget_config, ReferenceHandler("dropdown_dependent_widget")>>,
       <<company_performance_config, ReferenceHandler("get_company_performance")>>,
       <<company_details_config, ReferenceHandler("get_company_details")>>,
       <<table_widget_with_grouping_by_cell_click_config,
         ReferenceHandler("table_widget_with_grouping_by_cell_click")>>,
       <<widget_managed_by_parameter_from_cell_click_on_table_widget_config,
         ReferenceHandler("widget_managed_by_parameter_from_cell_click_on_table_widget")>> >>

\* The list /company_options returns.
company_options ==
    << [label |-> "Toyota Motor Corporation", value |-> "TM"],
       [label |-> "Volkswagen Group", value |-> "VWAGY"],
       [label |-> "General Motors", value |-> "GM"],
       [label |-> "Ford Motor Company", value |-> "F"],
       [label |-> "Tesla Inc.", value |-> "TSLA"] >>

\* GET /company_options: an endpoint without the decorator.
get_company_options ==
    /\ request' = [op |-> "get_company_options"]
    /\ response' = [status |-> 200, content |-> company_options]
    /\ UNCHANGED <<WIDGETS, applied, wrappers, ALL_FORMS, pending>>

\* The list /get_tickers_list returns.
tickers_list ==
    << [label |-> "Apple Inc.", value |-> "AAPL"],
       [label |-> "Microsoft Corporation", value |-> "MSFT"],
       [label |-> "Google", value |-> "GOOGL"],
       [label |-> "Amazon", value |-> "AMZN"],
       [label |-> "Tesla", value |-> "TSLA"] >>

\* GET /get_tickers_list: an endpoint without the decorator.
get_tickers_list ==
    /\ request' = [op |-> "get_tickers_list"]
    /\ response' = [status |-> 200, content |-> tickers_list]
    /\ UNCHANGED <<WIDGETS, applied, wrappers, ALL_FORMS, pending>>

\* At most this many of these decorator applications are made.
MaxReferenceApplied == 4

RegisterReferenceWidget ==
    \E i \in 1..Len(ReferenceWidgets) :
        /\ Len(applied) < MaxReferenceApplied
        /\ register_widget(ReferenceWidgets[i][1], ReferenceWidgets[i][2])

GetCompanyOptions == get_company_options
GetTickersList == get_tickers_list

NextReference ==
    \/ RegisterReferenceWidget
    \/ GetWidgets
    \/ GetDocumentOptions
    \/ GetCompanyOptions
    \/ GetTickersList

SpecReference == Init /\ [][NextReference]_vars

\* The params of a configuration, and what they declare.
ParamsOf(widget_config) == widget_config.params.l
ParamNamesOf(widget_config) ==
    {ParamsOf(widget_config)[i].d.paramName.s : i \in 1..Len(ParamsOf(widget_config))}
ParamNamed(widget_config, name) ==
    LET params == ParamsOf(widget_config)
    IN  params[CHOOSE i \in 1..Len(params) : params[i].d.paramName.s = name].d
\* The values of a param's options, in order.
OptionValuesOf(param) == [i \in 1..Len(param.options.l) |-> param.options.l[i].d.value.s]

\* The dropdown entries for a list of document names.
EntriesFor(names) == [i \in 1..Len(names) |-> [label |-> names[i], value |-> names[i]]]
DocumentNames(docs) == [i \in 1..Len(docs) |-> docs[i].name]

\* C13: in the registered dropdown_dependent_widget every "$name" of an
\* optionsParams names a param of the same widget; the category dropdown
\* offers all, reports and presentations, and /document_options answers each
\* of them with a non-empty list: the four documents for all, otherwise the
\* documents of that category in their original order; any other category
\* gives the empty list.
C13_DependentDropdown ==
    /\ PyStr("dropdown_dependent_widget") \in DOMAIN WIDGETS =>
          LET config == WIDGETS[PyStr("dropdown_dependent_widget")]
              params == ParamsOf(config)
              offered == OptionValuesOf(ParamNamed(config, "category"))
          IN  /\ \A i \in 1..Len(params) :
                    "optionsParams" \in DOMAIN params[i].d =>
                        \A k \in DOMAIN params[i].d.optionsParams.d :
                            \E name \in ParamNamesOf(config) :
                                params[i].d.optionsParams.d[k] = PyStr("$" \o name)
              /\ offered = <<"all", "reports", "presentations">>
              /\ \A i \in 1..Len(offered) : document_options(offered[i]) # << >>
    /\ request.op = "get_document_options" =>
          /\ request.category = "all" =>
                response.content = EntriesFor(<<"Q1 Report", "Q2 Report",
                                                "Investor Presentation", "Product Roadmap">>)
          /\ request.category # "all" =>
                response.content =
                    EntriesFor(DocumentNames(SelectSeq(SAMPLE_DOCUMENTS,
                        LAMBDA doc : doc.category = request.category)))
          /\ request.category \notin {"all", "reports", "presentations"} =>
                response.content = << >>

\* The widget is registered and the documents of the category reports were
\* asked for: the two reports come back.
C13_Witness ==
    /\ PyStr("dropdown_dependent_widget") \in DOMAIN WIDGETS
    /\ WIDGETS[PyStr("dropdown_dependent_widget")].id = PyStr("dropdown_dependent_widget")
    /\ request.op = "get_document_options"
    /\ request.category = "reports"
    /\ response.content = EntriesFor(<<"Q1 Report", "Q2 Report">>)

\* The column definitions of a table widget's configuration.
ColumnsDefsOf(widget_config) == widget_config.data.d.table.d.columnsDefs.l

\* The groupByParamName of the columns that render a cell click as groupBy.
GroupByParamNamesOf(widget_config) ==
    LET columns == ColumnsDefsOf(widget_config)
    IN  {columns[i].d.renderFnParams.d.groupByParamName.s :
            i \in {j \in 1..Len(columns) : "renderFnParams" \in DOMAIN columns[j].d}}

\* The options endpoint of each param that has one: paramName -> endpoint.
OptionsEndpointsOf(widget_config) ==
    LET params == ParamsOf(widget_config)
        withEndpoint == {i \in 1..Len(params) : "optionsEndpoint" \in DOMAIN params[i].d}
    IN  {<<params[i].d.paramName.s, params[i].d.optionsEndpoint.s>> : i \in withEndpoint}

\* The option values of each param that lists options: paramName -> values.
OptionListsOf(widget_config) ==
    LET params == ParamsOf(widget_config)
        withOptions == {i \in 1..Len(params) : "options" \in DOMAIN params[i].d}
    IN  {<<params[i].d.paramName.s, OptionValuesOf(params[i].d)>> : i \in withOptions}

TableKey == PyStr("table_widget_with_grouping_by_cell_click")
ManagedKey == PyStr("widget_managed_by_parameter_from_cell_click_on_table_widget")
PerformanceKey == PyStr("company_performance")
DetailsKey == PyStr("company_details")

\* C14: in the registry the table's cell-click column groups by "symbol",
\* a paramName the table widget declares itself and the managed widget
\* declares too; company_performance and company_details declare the same
\* paramNames, company and year, with the same optionsEndpoint and the same
\* option values.
C14_ParameterGrouping ==
    /\ TableKey \in DOMAIN WIDGETS =>
          /\ GroupByParamNamesOf(WIDGETS[TableKey]) = {"symbol"}
          /\ GroupByParamNamesOf(WIDGETS[TableKey]) \subseteq ParamNamesOf(WIDGETS[TableKey])
          /\ ColumnsDefsOf(WIDGETS[TableKey])[1].d.field = PyStr("symbol")
    /\ {TableKey, ManagedKey} \subseteq DOMAIN WIDGETS =>
          GroupByParamNamesOf(WIDGETS[TableKey]) \subseteq ParamNamesOf(WIDGETS[ManagedKey])
    /\ {PerformanceKey, DetailsKey} \subseteq DOMAIN WIDGETS =>
          LET performance == WIDGETS[PerformanceKey]
              details == WIDGETS[DetailsKey]
          IN  /\ ParamNamesOf(performance) = {"company", "year"}
              /\ ParamNamesOf(details) = ParamNamesOf(performance)
              /\ OptionsEndpointsOf(details) = OptionsEndpointsOf(performance)
              /\ OptionsEndpointsOf(performance) = {<<"company", "/company_options">>}
              /\ OptionListsOf(details) = OptionListsOf(performance)
              /\ OptionListsOf(performance) = {<<"year", <<"2024", "2023", "2022">> >>}

\* The table, the widget it manages and both grouped widgets are registered,
\* and the registry has just been served.
C14_Witness ==
    /\ {TableKey, ManagedKey, PerformanceKey, DetailsKey} \subseteq DOMAIN WIDGETS
    /\ request.op = "get_widgets"
    /\ GroupByParamNamesOf(response.content[TableKey]) = {"symbol"}
    /\ ParamNamesOf(response.content[ManagedKey]) = {"symbol"}
    /\ ParamNamesOf(response.content[DetailsKey]) = {"company", "year"}

\* The last configuration of a history registered with endpoint k.
LastRegistered(history, k) ==
    LET at == {i \in 1..Len(history) :
                  IsGiven(history[i], "endpoint") /\ history[i]["endpoint"] = k}
    IN  history[CHOOSE i \in at : \A j \in at : j <= i]

\* A configuration as the registry holds it: with its own id, or else with
\* its endpoint as id.
StoredForm(widget_config) ==
    [k \in DOMAIN widget_config \cup {"id"} |->
        IF k \in DOMAIN widget_config THEN widget_config[k] ELSE widget_config["endpoint"]]

\* C15: after every registration each key of WIDGETS holds the configuration
\* registered last with that endpoint, registering the configuration that
\* was registered just before changes nothing, the number of entries is the
\* number of distinct truthy endpoints registered, and a configuration whose
\* endpoint is missing or empty is not stored and gets no id.
C15_LastRegistrationWins ==
    [][ request'.op = "register_widget" =>
          LET widget_config == request'.widget_config
          IN  /\ \A k \in DOMAIN WIDGETS' :
                    WIDGETS'[k] = StoredForm(LastRegistered(applied', k))
              /\ (applied # << >> /\ applied[Len(applied)] = widget_config) =>
                    WIDGETS' = WIDGETS
              /\ Cardinality(DOMAIN WIDGETS') = Cardinality(RegisteredEndpoints')
              /\ ~IsGiven(widget_config, "endpoint") =>
                    /\ WIDGETS' = WIDGETS
                    /\ response'.widget_config = widget_config
                    /\ \A k \in DOMAIN WIDGETS' : WIDGETS'[k] # widget_config ]_vars

\* Two different configurations were registered with one endpoint, the later
\* one is stored, and a configuration without endpoint has just been applied
\* and has no id.
C15_Witness ==
    /\ request.op = "register_widget"
    /\ ~IsGiven(request.widget_config, "endpoint")
    /\ "id" \notin DOMAIN response.widget_config
    /\ Cardinality(DOMAIN WIDGETS) = 1
    /\ \E i, j \in 1..Len(applied) :
          /\ i < j
          /\ applied[i] # applied[j]
          /\ IsGiven(applied[i], "endpoint")
          /\ IsGiven(applied[j], "endpoint")
          /\ applied[i]["endpoint"] = applied[j]["endpoint"]
          /\ WIDGETS[applied[j]["endpoint"]] = StoredForm(applied[j])
          /\ WIDGETS[applied[j]["endpoint"]] # StoredForm(applied[i])

====
